---- MODULE Spec2Model ----
(***************************************************************************)
(* State-machine model of src/lib/utils.jsx: the React mixins              *)
(* createTaskClusterMixin (asynchronous state loader) and                  *)
(* createWebListenerMixin (push-messaging subscription manager).           *)
(*                                                                         *)
(* JavaScript values are modelled as strings: "undefined", "null", "true", *)
(* "false"; a promise is modelled by its settlement state.  setState is    *)
(* modelled as the merge of the given fields into the component state.     *)
(***************************************************************************)
EXTENDS Integers, Sequences, FiniteSets, TLC

VARIABLES
  \* ---- createTaskClusterMixin -------------------------------------------
  hasLoad,          \* whether the component defines this.load (line 174)
  state,            \* this.state: per property the fields <p>Loaded, <p>Error, <p>
  hasIterationMap,  \* this.__promisedStateIterationMap !== undefined
  iterationMap,     \* this.__promisedStateIterationMap: key -> iteration
  calls,            \* the loadState invocations: captured iterations, handler promises
  last,             \* the loader operation that ran last, with its arguments
  \* ---- createWebListenerMixin -------------------------------------------
  optBindings,      \* options.bindings, the configured initial bindings
  phase,            \* lifecycle of the component carrying the listener mixin
  listener,         \* this.__listener: "undefined", "null" or a WebListener id
  listeners,        \* the taskcluster.WebListener objects created so far
  lstate,           \* this.state.listening and this.state.listeningError
  attempts,         \* startListening invocations whose promise chain is set up
  lastL,            \* the listener operation that ran last, with its arguments
  \* ---- escapeChar / unescapeChar ----------------------------------------
  esc,              \* a string, its escaped form and the unescaped form of that
  \* ---- createLocationHashMixin ------------------------------------------
  hashDefault,      \* options.defaultValue
  hashIndex,        \* this.props.hashIndex
  url,              \* window.location.hash without the leading '#'
  previousHashFragment, \* this.__previousHashFragment
  hashState,        \* this.state[options.key]
  hashPhase,        \* lifecycle of the component carrying the hash mixin
  hashEvents,       \* hashchange notifications not delivered yet, by origin
  lastH,            \* the hash mixin operation that ran last, with what it did
  \* ---- createTaskClusterMixin: lifecycle ---------------------------------
  reloadOnProps,    \* options.reloadOnProps
  props,            \* this.props
  clients,          \* this[key] for the keys of options.clients: their credentials
  credPhase,        \* lifecycle of the component carrying the loader mixin
  callClients,      \* for each loadState invocation, the clients load() found
  lastC             \* what the last lifecycle method did

loaderVars   == <<hasLoad, state, hasIterationMap, iterationMap, calls, last>>
listenerVars == <<optBindings, phase, listener, listeners, lstate, attempts, lastL>>
hashVars     == <<hashDefault, hashIndex, url, previousHashFragment, hashState,
                  hashPhase, hashEvents, lastH>>
lifeVars     == <<reloadOnProps, props, clients, credPhase, callClients, lastC>>
auxVars      == <<esc, hashVars, lifeVars>>
vars         == <<loaderVars, listenerVars, auxVars>>

Undefined == "undefined"
Null      == "null"

(***************************************************************************)
(*                         createTaskClusterMixin                          *)
(***************************************************************************)

\* Bound: number of loadState invocations explored.
MaxCalls == 2

\* The property names that mappings given to loadState may contain.
Keys == {"a", "b"}

\* Values a computation may fulfil with.
Results == {"r1", "r2"}

\* Values a computation may reject with: no payload (undefined, null), a
\* falsy payload that is not nullish (such as '' or 0), or an error object.
RejectionValues == {Undefined, Null, "falsy", "e1"}

\* new Error("Unknown Error") of the loader's rejection handler.
UnknownError == "Error(Unknown Error)"

\* State of a property nothing was ever loaded for: the fields are absent.
AbsentRecord == [Loaded |-> Undefined, Error |-> Undefined, value |-> Undefined]

\* The record loadState writes for every key of the mapping.
LoadingRecord == [Loaded |-> "false", Error |-> Undefined, value |-> Undefined]

\* The record setLoaded(key, result, err) writes.
LoadedRecord(result, err) == [Loaded |-> "true", Error |-> err, value |-> result]

\* A mutated iteration allocation: the counter is reset instead of incremented.
NewIterationReset(map, key) == 1

\* The iteration loadState allocates for key: an absent counter starts at 0,
\* then the counter is incremented.
NewIteration(map, key) == (IF key \in DOMAIN map THEN map[key] ELSE 0) + 1

\* A mutated stale guard: every settlement is applied.
IsCurrentAlways(captured, current) == TRUE

\* The guard of setLoaded: the captured iteration is still the current one.
IsCurrent(captured, current) == captured = current

\* The rejection handler evaluates err.stack as an argument of debug(...)
\* before anything else: for undefined and null that is a TypeError.
HandlerThrows(err) == err \in {Undefined, Null}

\* err || new Error("Unknown Error")
ErrorOrUnknown(err) == IF err \in {Undefined, Null, "falsy"} THEN UnknownError ELSE err

\* What this.load(props) may return: nothing, or a mapping with some keys.
LoadReturns ==
  {[defined |-> FALSE, keys |-> {}]} \cup {[defined |-> TRUE, keys |-> ks] : ks \in SUBSET Keys}

\* A mutated fallback: a load() that returns nothing reloads every key.
OrEmptyAll(r) == IF r.defined THEN r.keys ELSE Keys

\* this.load(props) || {}
OrEmpty(r) == IF r.defined THEN r.keys ELSE {}

\* A mutated result promise, which waits for a computation that is not awaited.
ReturnedPromiseStuck(c) == "pending"

\* Promise.all(promises).then(...) of invocation c: rejected as soon as one
\* handler promise is rejected, fulfilled once all are fulfilled.
ReturnedPromise(c) ==
  IF \E k \in c.keys : c.st[k] = "rejected" THEN "rejected"
  ELSE IF \A k \in c.keys : c.st[k] = "fulfilled" THEN "fulfilled"
  ELSE "pending"

NoOp == [op |-> "none", call |-> 0, key |-> "", kind |-> "", val |-> "",
         keys |-> {}, promise |-> ""]

\* The invocations whose computation for key k has not settled yet.
PendingFor(k) ==
  {c \in 1..Len(calls) : k \in calls[c].keys /\ calls[c].st[k] = "pending"}

\* loadState(promisedState), promisedState a mapping with the keys ks.
LoadStateBody(ks, opName) ==
  LET newMap == [k \in (DOMAIN iterationMap) \cup ks |->
                   IF k \in ks THEN NewIteration(iterationMap, k) ELSE iterationMap[k]]
      call   == [keys |-> ks,
                 iter |-> [k \in ks |-> newMap[k]],
                 st   |-> [k \in ks |-> "pending"],
                 over |-> {k \in ks : PendingFor(k) # {}}]
  IN /\ hasIterationMap' = TRUE
     /\ iterationMap' = newMap
     /\ state' = [k \in Keys |-> IF k \in ks THEN LoadingRecord ELSE state[k]]
     /\ calls' = Append(calls, call)
     /\ last' = [NoOp EXCEPT !.op = opName, !.call = Len(calls) + 1, !.keys = ks,
                             !.promise = ReturnedPromise(call)]

loadState(ks) ==
  /\ Len(calls) < MaxCalls
  /\ LoadStateBody(ks, "loadState")
  /\ UNCHANGED <<hasLoad, listenerVars, auxVars>>

\* reload(props) of a component without a load function.
reloadNoLoad ==
  /\ ~hasLoad
  /\ last' = [NoOp EXCEPT !.op = "reloadNoLoad", !.promise = "fulfilled"]
  /\ UNCHANGED <<hasLoad, state, hasIterationMap, iterationMap, calls, listenerVars, auxVars>>

\* reload(props) of a component with a load function returning r.
reloadLoad(r) ==
  /\ hasLoad
  /\ Len(calls) < MaxCalls
  /\ LoadStateBody(OrEmpty(r), IF r.defined THEN "reload" ELSE "reloadNothing")
  /\ UNCHANGED <<hasLoad, listenerVars, auxVars>>

\* setLoaded(key, result, err) of invocation c.
SetLoaded(c, key, result, err) ==
  IF IsCurrent(calls[c].iter[key], iterationMap[key])
  THEN state' = [state EXCEPT ![key] = LoadedRecord(result, err)]
  ELSE state' = state

\* The computation of invocation c for key fulfils with result.
settleFulfilled(c, key, result) ==
  /\ c \in 1..Len(calls)
  /\ key \in calls[c].keys
  /\ calls[c].st[key] = "pending"
  /\ SetLoaded(c, key, result, Undefined)
  /\ calls' = [calls EXCEPT ![c].st[key] = "fulfilled"]
  /\ last' = [NoOp EXCEPT !.op = "settle", !.call = c, !.key = key,
                          !.kind = "fulfilled", !.val = result]
  /\ UNCHANGED <<hasLoad, hasIterationMap, iterationMap, listenerVars, auxVars>>

\* The computation of invocation c for key rejects with err.
settleRejected(c, key, err) ==
  /\ c \in 1..Len(calls)
  /\ key \in calls[c].keys
  /\ calls[c].st[key] = "pending"
  /\ IF HandlerThrows(err)
     THEN /\ state' = state
          /\ calls' = [calls EXCEPT ![c].st[key] = "rejected"]
     ELSE /\ SetLoaded(c, key, Undefined, ErrorOrUnknown(err))
          /\ calls' = [calls EXCEPT ![c].st[key] = "fulfilled"]
  /\ last' = [NoOp EXCEPT !.op = "settle", !.call = c, !.key = key,
                          !.kind = "rejected", !.val = err]
  /\ UNCHANGED <<hasLoad, hasIterationMap, iterationMap, listenerVars, auxVars>>

(***************************************************************************)
(*                         createWebListenerMixin                          *)
(***************************************************************************)

\* Bound: number of startListening invocations that reach the transport.
MaxAttempts == 2

\* Bound: number of taskcluster.WebListener objects created.
MaxListeners == 2

\* The bindings (topic filters) a caller may ask for.
Filters == {"f1", "f2"}

\* Payloads of an 'error' event or of a rejected bind/resume.
ListenerErrors == {Undefined, "e1"}

\* new Error("Unknown error") of the listener's error handlers.
UnknownListenerError == "Error(Unknown error)"

\* this.__listener holding no WebListener (null, or undefined before mount).
NoListener == 0

\* A new taskcluster.WebListener(): nothing bound, not resumed, not closed.
NewListener == [bound |-> {}, resumed |-> FALSE, closed |-> 0]

\* The argument of startListening: an array of bindings, or a number.
ArrayArg(fs) == [array |-> TRUE, n |-> Cardinality(fs), items |-> fs]
NumberArg(n) == [array |-> FALSE, n |-> n, items |-> {}]

\* What componentDidMount passes to startListening: options.bindings.length.
MountArg(bindings) == NumberArg(Cardinality(bindings))

\* !bindings || bindings.length === 0: an empty array or the number 0; a
\* non-zero number is truthy and its length is undefined.
NothingToBind(arg) == IF arg.array THEN arg.items = {} ELSE arg.n = 0

\* A mutated test of the handle: a new WebListener for every call.
NeedsListenerAlways(l) == TRUE

\* !this.__listener
NeedsListener(l) == l = NoListener

\* A mutated normalisation: the payload is stored as it came.
ErrorAsGiven(err) == err

\* if (!err) { err = new Error("Unknown error"); }
ListenerErrorOrUnknown(err) == IF err \in {Undefined, Null} THEN UnknownListenerError ELSE err

\* A mutated close: the WebListener is not closed.
NotClosed(rec) == rec

\* this.__listener.close()
Closed(rec) == [rec EXCEPT !.closed = @ + 1]

\* A mutated release: the handle is kept after close.
KeptHandle(l) == l

\* this.__listener = null
ReleasedHandle(l) == NoListener

NoOpL == [op |-> "none", l |-> NoListener, i |-> 0, err |-> "", fs |-> {},
          run |-> 0, threw |-> FALSE]

\* stopListening(), run on the state fields ls: sets listening false, closes
\* the WebListener if there is one and releases the handle.
StopListeningBody(ls) ==
  /\ lstate' = [ls EXCEPT !.listening = "false"]
  /\ IF listener # NoListener
     THEN /\ listeners' = [listeners EXCEPT ![listener] = Closed(@)]
          /\ listener' = ReleasedHandle(listener)
     ELSE UNCHANGED <<listeners, listener>>

\* componentDidMount: __listener = null, then startListening(bindings.length)
\* when bindings are configured.  The number passes the guard, a WebListener
\* is created and its handlers registered, and bindings.map throws.
componentDidMount ==
  /\ phase = "constructed"
  /\ phase' = "mounted"
  /\ IF optBindings # {}
     THEN LET arg == MountArg(optBindings) IN
          IF NothingToBind(arg)
          THEN /\ listener' = NoListener
               /\ lastL' = [NoOpL EXCEPT !.op = "componentDidMount"]
               /\ UNCHANGED <<listeners, lstate, attempts>>
          ELSE /\ listeners' = Append(listeners, NewListener)
               /\ listener' = Len(listeners) + 1
               /\ lastL' = [NoOpL EXCEPT !.op = "componentDidMount", !.threw = ~arg.array]
               /\ UNCHANGED <<lstate, attempts>>
     ELSE /\ listener' = NoListener
          /\ lastL' = [NoOpL EXCEPT !.op = "componentDidMount"]
          /\ UNCHANGED <<listeners, lstate, attempts>>
  /\ UNCHANGED <<optBindings, loaderVars, auxVars>>

\* startListening(bindings) with an empty array: resolved at once.
startListeningNothing ==
  /\ phase = "mounted"
  /\ NothingToBind(ArrayArg({}))
  /\ lastL' = [NoOpL EXCEPT !.op = "startListeningNothing", !.l = listener]
  /\ UNCHANGED <<optBindings, phase, listener, listeners, lstate, attempts, loaderVars, auxVars>>

\* startListening(bindings) with the bindings fs: on a new WebListener when
\* none is open (handlers registered, every binding bound, resume called),
\* else the bindings are bound on the open one.
startListening(fs) ==
  /\ phase = "mounted"
  /\ ~NothingToBind(ArrayArg(fs))
  /\ Len(attempts) < MaxAttempts
  /\ IF NeedsListener(listener)
     THEN /\ Len(listeners) < MaxListeners
          /\ listeners' = Append(listeners, [NewListener EXCEPT !.bound = fs, !.resumed = TRUE])
          /\ listener' = Len(listeners) + 1
          /\ attempts' = Append(attempts, [l |-> Len(listeners) + 1, fs |-> fs, path |-> "fresh",
                                           st |-> "pending", promise |-> "pending"])
     ELSE /\ listeners' = [listeners EXCEPT ![listener].bound = @ \cup fs]
          /\ listener' = listener
          /\ attempts' = Append(attempts, [l |-> listener, fs |-> fs, path |-> "incremental",
                                           st |-> "pending", promise |-> "pending"])
  /\ lstate' = [listening |-> Null, listeningError |-> Undefined]
  /\ lastL' = [NoOpL EXCEPT !.op = "startListening", !.l = listener, !.fs = fs,
                            !.i = Len(attempts) + 1]
  /\ UNCHANGED <<optBindings, phase, loaderVars, auxVars>>

\* Every bind (and the resume) of attempt i succeeded.
attemptSucceeds(i) ==
  /\ i \in 1..Len(attempts)
  /\ attempts[i].st = "pending"
  /\ lstate' = [listening |-> "true", listeningError |-> Undefined]
  /\ attempts' = [attempts EXCEPT ![i].st = "succeeded", ![i].promise = "fulfilled"]
  /\ lastL' = [NoOpL EXCEPT !.op = "attemptSucceeds", !.l = listener, !.i = i]
  /\ UNCHANGED <<optBindings, phase, listener, listeners, loaderVars, auxVars>>

\* A bind or the resume of attempt i failed with err: the error is stored and
\* stopListening's promise (that of close, or a resolved one) is returned.
attemptFails(i, err) ==
  /\ i \in 1..Len(attempts)
  /\ attempts[i].st = "pending"
  /\ StopListeningBody([lstate EXCEPT !.listeningError = ListenerErrorOrUnknown(err)])
  /\ attempts' = [attempts EXCEPT ![i].st = "failed", ![i].promise = "fulfilled"]
  /\ lastL' = [NoOpL EXCEPT !.op = "attemptFails", !.l = listener, !.i = i, !.err = err]
  /\ UNCHANGED <<optBindings, phase, loaderVars, auxVars>>

\* WebListener l emits 'error' with payload err: the handler registered at
\* creation stores the error and calls stopListening.
errorEvent(l, err) ==
  /\ l \in 1..Len(listeners)
  /\ StopListeningBody([lstate EXCEPT !.listeningError = ListenerErrorOrUnknown(err)])
  /\ lastL' = [NoOpL EXCEPT !.op = "errorEvent", !.l = listener, !.i = l, !.err = err]
  /\ UNCHANGED <<optBindings, phase, attempts, loaderVars, auxVars>>

\* stopListening() called by the component.
stopListening ==
  /\ phase = "mounted"
  /\ StopListeningBody(lstate)
  /\ lastL' = [NoOpL EXCEPT !.op = "stopListening", !.l = listener,
                            !.run = IF lastL.op = "stopListening" THEN 2 ELSE 1]
  /\ UNCHANGED <<optBindings, phase, attempts, loaderVars, auxVars>>

\* componentWillUnmount: stopListening().
componentWillUnmount ==
  /\ phase = "mounted"
  /\ phase' = "unmounted"
  /\ StopListeningBody(lstate)
  /\ lastL' = [NoOpL EXCEPT !.op = "componentWillUnmount", !.l = listener]
  /\ UNCHANGED <<optBindings, attempts, loaderVars, auxVars>>

(***************************************************************************)
(*                 Strings, escapeChar and unescapeChar                    *)
(*                                                                         *)
(* A string is a sequence of one-character strings.                        *)
(***************************************************************************)

\* Bound: length of the strings given to escapeChar.
MaxStrLen == 3

\* The characters of the strings given to escapeChar.
EscAlphabet == {"/", "%", "2", "f", "a"}

\* c.charCodeAt(0) for the characters the model uses.
CharCode(c) ==
  CASE c = " " -> 32  [] c = "%" -> 37  [] c = "/" -> 47  [] c = "2" -> 50
    [] c = "5" -> 53  [] c = "a" -> 97  [] c = "b" -> 98  [] c = "d" -> 100
    [] c = "e" -> 101 [] c = "f" -> 102 [] c = "l" -> 108 [] c = "n" -> 110
    [] c = "o" -> 111 [] c = "w" -> 119 [] c = "x" -> 120

HexDigit(n) ==
  CASE n = 0 -> "0" [] n = 1 -> "1" [] n = 2 -> "2" [] n = 3 -> "3"
    [] n = 4 -> "4" [] n = 5 -> "5" [] n = 6 -> "6" [] n = 7 -> "7"
    [] n = 8 -> "8" [] n = 9 -> "9" [] n = 10 -> "a" [] n = 11 -> "b"
    [] n = 12 -> "c" [] n = 13 -> "d" [] n = 14 -> "e" [] n = 15 -> "f"

\* n.toString(16): lower case, no padding.
RECURSIVE ToHex(_)
ToHex(n) == IF n < 16 THEN <<HexDigit(n)>> ELSE ToHex(n \div 16) \o <<HexDigit(n % 16)>>

\* '%' + c.charCodeAt(0).toString(16)
PercentCode(c) == <<"%">> \o ToHex(CharCode(c))

\* needle is a prefix of s.
StartsWith(s, needle) ==
  Len(s) >= Len(needle) /\ SubSeq(s, 1, Len(needle)) = needle

\* s contains needle.
Contains(s, needle) ==
  \E i \in 1..(Len(s) - Len(needle) + 1) : SubSeq(s, i, i + Len(needle) - 1) = needle

\* string.replace(new RegExp(<needle, escaped>, 'g'), repl): every match,
\* leftmost first, without overlap.
RECURSIVE ReplaceAll(_, _, _)
ReplaceAll(s, needle, repl) ==
  IF s = << >> THEN << >>
  ELSE IF StartsWith(s, needle)
       THEN repl \o ReplaceAll(SubSeq(s, Len(needle) + 1, Len(s)), needle, repl)
       ELSE <<Head(s)>> \o ReplaceAll(Tail(s), needle, repl)

\* A mutated replace without the 'g' flag: the first match only.
ReplaceFirst(s, needle, repl) ==
  IF Contains(s, needle)
  THEN LET i == CHOOSE j \in 1..Len(s) :
                  /\ StartsWith(SubSeq(s, j, Len(s)), needle)
                  /\ \A k \in 1..(j - 1) : ~StartsWith(SubSeq(s, k, Len(s)), needle)
       IN SubSeq(s, 1, i - 1) \o repl \o SubSeq(s, i + Len(needle), Len(s))
  ELSE s

\* A mutated escapeChar that replaces the first occurrence only.
escapeCharFirst(character, string) ==
  ReplaceFirst(string, <<character>>, PercentCode(character))

\* escapeChar(character, string): every occurrence of character becomes its
\* percent code.
escapeChar(character, string) ==
  ReplaceAll(string, <<character>>, PercentCode(character))

\* unescapeChar(character, string): every occurrence of the percent code of
\* character becomes character.
unescapeChar(character, string) ==
  ReplaceAll(string, PercentCode(character), <<character>>)

\* The strings over alphabet of length at most n.
StringsOver(alphabet, n) == UNION {[1..m -> alphabet] : m \in 0..n}

\* escapeChar('/', s) applied to the input string.
escapeStep ==
  /\ esc.stage = "input"
  /\ esc' = [esc EXCEPT !.stage = "escaped", !.e = escapeChar("/", esc.s)]
  /\ UNCHANGED <<loaderVars, listenerVars, hashVars, lifeVars>>

\* unescapeChar('/', e) applied to the escaped string.
unescapeStep ==
  /\ esc.stage = "escaped"
  /\ esc' = [esc EXCEPT !.stage = "unescaped", !.u = unescapeChar("/", esc.e)]
  /\ UNCHANGED <<loaderVars, listenerVars, hashVars, lifeVars>>

(***************************************************************************)
(*                        createLocationHashMixin                          *)
(***************************************************************************)

\* Bound: hashchange notifications waiting for delivery.
MaxEvents == 2

\* undefined, where a string may stand.
UndefStr == <<"undefined">>

\* The characters [a-zA-Z0-9!$&'()*+,;=:@\-._~?\/] among those modelled:
\* encodeFragment leaves them as they are.
FragmentSafe == {"/", "2", "5", "a", "b", "d", "e", "f", "l", "n", "o", "w", "x"}

\* The characters the model gives a code to.
ModelChars == FragmentSafe \cup {" ", "%"}

\* Value of a hexadecimal digit, -1 for another character.
HexVal(c) ==
  CASE c = "0" -> 0 [] c = "1" -> 1 [] c = "2" -> 2 [] c = "3" -> 3 [] c = "4" -> 4
    [] c = "5" -> 5 [] c = "6" -> 6 [] c = "7" -> 7 [] c = "8" -> 8 [] c = "9" -> 9
    [] c \in {"a", "A"} -> 10 [] c \in {"b", "B"} -> 11 [] c \in {"c", "C"} -> 12
    [] c \in {"d", "D"} -> 13 [] c \in {"e", "E"} -> 14 [] c \in {"f", "F"} -> 15
    [] OTHER -> -1

\* String.fromCharCode(code) for code < 128.
CharOfCode(code) ==
  IF \E c \in ModelChars : CharCode(c) = code
  THEN CHOOSE c \in ModelChars : CharCode(c) = code
  ELSE "chr" \o ToString(code)

\* decodeURIComponent(raw): every %XY becomes the character of that code; a
\* '%' without two hexadecimal digits, or a byte above 0x7f that starts no
\* valid UTF-8 sequence, is a URIError (ok = FALSE).
RECURSIVE decodeURIComponent(_)
decodeURIComponent(raw) ==
  IF raw = << >> THEN [ok |-> TRUE, s |-> << >>]
  ELSE IF Head(raw) # "%"
       THEN LET rest == decodeURIComponent(Tail(raw))
            IN [ok |-> rest.ok, s |-> <<Head(raw)>> \o rest.s]
       ELSE IF Len(raw) < 3 \/ HexVal(raw[2]) < 0 \/ HexVal(raw[3]) < 0
                 \/ 16 * HexVal(raw[2]) + HexVal(raw[3]) >= 128
            THEN [ok |-> FALSE, s |-> << >>]
            ELSE LET rest == decodeURIComponent(SubSeq(raw, 4, Len(raw)))
                 IN [ok |-> rest.ok,
                     s  |-> <<CharOfCode(16 * HexVal(raw[2]) + HexVal(raw[3]))>> \o rest.s]

\* encodeFragment(string): every character outside the safe set becomes its
\* percent code.
RECURSIVE encodeFragment(_)
encodeFragment(string) ==
  IF string = << >> THEN << >>
  ELSE (IF Head(string) \in FragmentSafe THEN <<Head(string)>> ELSE PercentCode(Head(string)))
       \o encodeFragment(Tail(string))

\* hash.split('/')
RECURSIVE Split(_)
Split(s) ==
  IF \A i \in 1..Len(s) : s[i] # "/" THEN <<s>>
  ELSE LET i == CHOOSE j \in 1..Len(s) : s[j] = "/" /\ \A k \in 1..(j - 1) : s[k] # "/"
       IN <<SubSeq(s, 1, i - 1)>> \o Split(SubSeq(s, i + 1, Len(s)))

\* fragments.join('/'); a hole of the array joins as the empty string.
RECURSIVE Join(_)
Join(fragments) ==
  IF Len(fragments) = 1 THEN fragments[1]
  ELSE fragments[1] \o <<"/">> \o Join(Tail(fragments))

\* fragments[index] || ''
Fragment(fragments, index) ==
  IF index + 1 <= Len(fragments) THEN fragments[index + 1] ELSE << >>

\* fragments[index] = value, on an array that may be shorter than index.
SetFragment(fragments, index, value) ==
  [i \in 1..(IF index + 1 > Len(fragments) THEN index + 1 ELSE Len(fragments)) |->
     IF i = index + 1 THEN value
     ELSE IF i <= Len(fragments) THEN fragments[i] ELSE << >>]

\* A mutated comparison: load runs on every notification.
FragmentChangedAlways(previous, fragment) == TRUE

\* this.__previousHashFragment !== fragment
FragmentChanged(previous, fragment) == previous # fragment

\* The default save: this.state[options.key] || options.defaultValue.
SaveDefault(st, dflt) == IF st \in {UndefStr, << >>} THEN dflt ELSE st

\* The default load's new state: data || options.defaultValue.
LoadDefault(data, dflt) == IF data = << >> THEN dflt ELSE data

NoOpH == [op |-> "none", origin |-> "", threw |-> FALSE, loadCalled |-> FALSE,
          loadArg |-> << >>, setState |-> FALSE, updated |-> FALSE, wrote |-> FALSE]

\* componentDidUpdate with the state st: the URL it leaves behind.  A hash
\* that does not decode makes it throw before anything is written.
DidUpdateUrl(st) ==
  LET hash == decodeURIComponent(url) IN
  IF ~hash.ok THEN url
  ELSE LET fragments   == Split(hash.s)
           oldFragment == Fragment(fragments, hashIndex)
           newFragment == escapeChar("/", SaveDefault(st, hashDefault))
       IN IF oldFragment # newFragment
          THEN encodeFragment(Join(SetFragment(fragments, hashIndex, newFragment)))
          ELSE url

\* The state after componentDidUpdate ran with state st, events pending ev:
\* assigning a different hash queues a hashchange notification.
DidUpdate(st, ev, rec) ==
  LET newUrl == DidUpdateUrl(st) IN
  /\ url' = newUrl
  /\ hashEvents' = IF newUrl # url THEN Append(ev, "own") ELSE ev
  /\ lastH' = [rec EXCEPT !.updated = TRUE, !.wrote = (newUrl # url),
                          !.threw = ~decodeURIComponent(url).ok]

\* handleHashChange; didUpdate tells whether a setState of load is followed
\* by componentDidUpdate (it is not while the component is mounting).
HandleHashChange(ev, rec, didUpdate) ==
  LET hash == decodeURIComponent(url) IN
  IF ~hash.ok
  THEN /\ lastH' = [rec EXCEPT !.threw = TRUE]
       /\ hashEvents' = ev
       /\ UNCHANGED <<url, hashState>>
       /\ previousHashFragment' = IF didUpdate THEN previousHashFragment ELSE UndefStr
  ELSE LET fragment == Fragment(Split(hash.s), hashIndex)
           previous == IF didUpdate THEN previousHashFragment ELSE UndefStr
       IN IF FragmentChanged(previous, fragment)
          THEN LET data     == unescapeChar("/", fragment)
                   newState == LoadDefault(data, hashDefault)
                   called   == [rec EXCEPT !.loadCalled = TRUE, !.loadArg = data]
               IN /\ previousHashFragment' = fragment
                  /\ IF hashState # newState
                     THEN /\ hashState' = newState
                          /\ IF didUpdate
                             THEN DidUpdate(newState, ev, [called EXCEPT !.setState = TRUE])
                             ELSE /\ lastH' = [called EXCEPT !.setState = TRUE]
                                  /\ hashEvents' = ev
                                  /\ url' = url
                     ELSE /\ lastH' = called
                          /\ hashEvents' = ev
                          /\ UNCHANGED <<url, hashState>>
          ELSE /\ previousHashFragment' = previous
               /\ lastH' = rec
               /\ hashEvents' = ev
               /\ UNCHANGED <<url, hashState>>

\* componentWillMount: forget the previous fragment, then handleHashChange().
hashWillMount ==
  /\ hashPhase = "constructed"
  /\ hashPhase' = "mounting"
  /\ HandleHashChange(hashEvents, [NoOpH EXCEPT !.op = "componentWillMount"], FALSE)
  /\ UNCHANGED <<hashDefault, hashIndex, esc, lifeVars, loaderVars, listenerVars>>

\* componentDidMount: handleHashChange is registered for 'hashchange'.
hashDidMount ==
  /\ hashPhase = "mounting"
  /\ hashPhase' = "mounted"
  /\ lastH' = [NoOpH EXCEPT !.op = "componentDidMount"]
  /\ UNCHANGED <<hashDefault, hashIndex, url, previousHashFragment, hashState, hashEvents,
                 esc, lifeVars, loaderVars, listenerVars>>

\* componentWillUnmount: handleHashChange is removed; notifications still
\* waiting are not delivered to it.
hashWillUnmount ==
  /\ hashPhase = "mounted"
  /\ hashPhase' = "unmounted"
  /\ hashEvents' = << >>
  /\ lastH' = [NoOpH EXCEPT !.op = "componentWillUnmount"]
  /\ UNCHANGED <<hashDefault, hashIndex, url, previousHashFragment, hashState,
                 esc, lifeVars, loaderVars, listenerVars>>

\* The hash is changed from outside the component (navigation, another
\* component) to raw: a notification is queued for the registered handler.
navigate(raw) ==
  /\ hashPhase = "mounted"
  /\ raw # url
  /\ Len(hashEvents) < MaxEvents
  /\ url' = raw
  /\ hashEvents' = Append(hashEvents, "ext")
  /\ lastH' = [NoOpH EXCEPT !.op = "navigate"]
  /\ UNCHANGED <<hashDefault, hashIndex, hashPhase, previousHashFragment, hashState,
                 esc, lifeVars, loaderVars, listenerVars>>

\* A hashchange notification is delivered: handleHashChange.
hashChange ==
  /\ hashPhase = "mounted"
  /\ hashEvents # << >>
  /\ HandleHashChange(Tail(hashEvents),
                      [NoOpH EXCEPT !.op = "handleHashChange", !.origin = Head(hashEvents)],
                      TRUE)
  /\ UNCHANGED <<hashDefault, hashIndex, hashPhase, esc, lifeVars, loaderVars, listenerVars>>

\* The component sets this.state[options.key] to value; componentDidUpdate
\* follows.
setKey(value) ==
  /\ hashPhase = "mounted"
  /\ Len(hashEvents) < MaxEvents
  /\ value # hashState
  /\ hashState' = value
  /\ DidUpdate(value, hashEvents, [NoOpH EXCEPT !.op = "setKey"])
  /\ UNCHANGED <<hashDefault, hashIndex, hashPhase, previousHashFragment,
                 esc, lifeVars, loaderVars, listenerVars>>

\* componentDidUpdate after an update of other state or of the props.
componentDidUpdate ==
  /\ hashPhase = "mounted"
  /\ Len(hashEvents) < MaxEvents
  /\ DidUpdate(hashState, hashEvents, [NoOpH EXCEPT !.op = "componentDidUpdate"])
  /\ UNCHANGED <<hashDefault, hashIndex, hashPhase, previousHashFragment, hashState,
                 esc, lifeVars, loaderVars, listenerVars>>

\* The values the component stores under options.key.
HashValues ==
  {<< >>, <<"n", "e", "w">>, <<"a", "/", "b">>, <<"%", "2", "f">>}

\* The hashes set from outside; the last one does not decode.
ExternalUrls ==
  {<< >>, <<"a", "/", "b", "/", "o", "l", "d", "/", "d">>,
   <<"a", "/", "b", "/", "n", "e", "w", "/", "d">>, <<"x">>, <<"%">>}

\* options.defaultValue (default '') and this.props.hashIndex.
HashDefaults == {<< >>, <<"d">>}
HashIndexes  == {0, 2}

InitHashIdle ==
  /\ hashDefault = << >>
  /\ hashIndex = 0
  /\ url = << >>
  /\ previousHashFragment = UndefStr
  /\ hashState = UndefStr
  /\ hashPhase = "idle"
  /\ hashEvents = << >>
  /\ lastH = NoOpH

InitHash ==
  /\ hashDefault \in HashDefaults
  /\ hashIndex \in HashIndexes
  /\ url \in ExternalUrls
  /\ previousHashFragment = UndefStr
  /\ hashState \in {UndefStr, << >>}
  /\ hashPhase = "constructed"
  /\ hashEvents = << >>
  /\ lastH = NoOpH

(***************************************************************************)
(*                  createTaskClusterMixin: lifecycle                      *)
(***************************************************************************)

PropNames   == {"p", "q"}
PropValues  == {"v1", "v2"}
ClientNames == {"queue", "index"}
Credentials == {"c1", "c2"}

\* options.reloadOnProps: false (the default), true, or a list of properties.
ReloadOptions ==
  {[kind |-> "false", list |-> {}], [kind |-> "true", list |-> {}],
   [kind |-> "list", list |-> {}], [kind |-> "list", list |-> {"p"}]}

\* A mutated check: any property that differs causes a reload.
ShallReloadAnyProp(opt, cur, next) == \E property \in PropNames : cur[property] # next[property]

\* shallReload of componentWillReceiveProps.
ShallReload(opt, cur, next) ==
  \/ opt.kind = "true"
  \/ /\ opt.kind # "true"
     /\ opt.kind = "list"
     /\ \E property \in opt.list : cur[property] # next[property]

\* _createClients(credentials): every client of options.clients is built anew.
CreateClients(credentials) == [key \in ClientNames |-> credentials]

\* A mutated order: load() is called before the clients are rebuilt.
ClientsAtLoadStale(before, after) == before

\* The clients in place when reload() calls this.load: _createClients has run.
ClientsAtLoad(before, after) == after

NoOpC == [reloaded |-> FALSE, loadCalled |-> FALSE, changed |-> {},
          withProps |-> << >>, withClients |-> << >>, cred |-> ""]

\* The properties whose value differs between this.props and nextProps.
Changed(cur, next) == {property \in PropNames : cur[property] # next[property]}

\* reload(withProps), load returning r, with the clients atLoad in place.
Reload(r, opName, withProps, atLoad, rec) ==
  IF hasLoad
  THEN /\ LoadStateBody(OrEmpty(r), opName)
       /\ callClients' = Append(callClients, atLoad)
       /\ lastC' = [rec EXCEPT !.reloaded = TRUE, !.loadCalled = TRUE,
                               !.withProps = withProps, !.withClients = atLoad]
  ELSE /\ last' = [NoOp EXCEPT !.op = opName, !.promise = "fulfilled"]
       /\ lastC' = [rec EXCEPT !.reloaded = TRUE]
       /\ UNCHANGED <<state, hasIterationMap, iterationMap, calls, callClients>>

\* componentDidMount: clients for the stored credentials, the listener for
\* 'credentials-changed', the initial reload().
loaderDidMount(credentials, r) ==
  /\ credPhase = "constructed"
  /\ hasLoad => Len(calls) < MaxCalls
  /\ credPhase' = "mounted"
  /\ clients' = CreateClients(credentials)
  /\ Reload(r, "componentDidMount", props, ClientsAtLoad(clients, clients'),
            [NoOpC EXCEPT !.cred = credentials])
  /\ UNCHANGED <<hasLoad, reloadOnProps, props, esc, hashVars, listenerVars>>

\* componentWillReceiveProps(nextProps); this.props is nextProps afterwards.
componentWillReceiveProps(nextProps, r) ==
  /\ credPhase = "mounted"
  /\ hasLoad => Len(calls) < MaxCalls
  /\ props' = nextProps
  /\ IF ShallReload(reloadOnProps, props, nextProps)
     THEN Reload(r, "componentWillReceiveProps", nextProps, clients,
                 [NoOpC EXCEPT !.changed = Changed(props, nextProps)])
     ELSE /\ last' = [NoOp EXCEPT !.op = "componentWillReceiveProps"]
          /\ lastC' = [NoOpC EXCEPT !.changed = Changed(props, nextProps)]
          /\ UNCHANGED <<state, hasIterationMap, iterationMap, calls, callClients>>
  /\ UNCHANGED <<hasLoad, reloadOnProps, clients, credPhase, esc, hashVars, listenerVars>>

\* handleCredentialsChanged(e), e.detail the new credentials.
handleCredentialsChanged(credentials, r) ==
  /\ credPhase = "mounted"
  /\ hasLoad => Len(calls) < MaxCalls
  /\ clients' = CreateClients(credentials)
  /\ Reload(r, "handleCredentialsChanged", props, ClientsAtLoad(clients, clients'),
            [NoOpC EXCEPT !.cred = credentials])
  /\ UNCHANGED <<hasLoad, reloadOnProps, props, credPhase, esc, hashVars, listenerVars>>

\* componentWillUnmount: the 'credentials-changed' listener is removed.
loaderWillUnmount ==
  /\ credPhase = "mounted"
  /\ credPhase' = "unmounted"
  /\ last' = [NoOp EXCEPT !.op = "componentWillUnmount"]
  /\ lastC' = NoOpC
  /\ UNCHANGED <<hasLoad, state, hasIterationMap, iterationMap, calls, reloadOnProps, props,
                 clients, callClients, esc, hashVars, listenerVars>>

InitLifeIdle ==
  /\ reloadOnProps = [kind |-> "false", list |-> {}]
  /\ props = [property \in PropNames |-> "v1"]
  /\ clients = [key \in ClientNames |-> Undefined]
  /\ credPhase = "idle"
  /\ callClients = << >>
  /\ lastC = NoOpC

InitLife ==
  /\ reloadOnProps \in ReloadOptions
  /\ props = [property \in PropNames |-> "v1"]
  /\ clients = [key \in ClientNames |-> Undefined]
  /\ credPhase = "constructed"
  /\ callClients = << >>
  /\ lastC = NoOpC

InitEscIdle ==
  /\ esc = [stage |-> "idle", s |-> << >>, e |-> << >>, u |-> << >>]

InitAuxIdle == InitEscIdle /\ InitHashIdle /\ InitLifeIdle

InitLoader ==
  /\ hasLoad \in BOOLEAN
  /\ state = [k \in Keys |-> AbsentRecord]
  /\ hasIterationMap = FALSE
  /\ iterationMap = << >>
  /\ calls = << >>
  /\ last = NoOp

InitListenerIdle ==
  /\ optBindings = {}
  /\ phase = "constructed"
  /\ listener = NoListener
  /\ listeners = << >>
  /\ lstate = [listening |-> Undefined, listeningError |-> Undefined]
  /\ attempts = << >>
  /\ lastL = NoOpL

NextLoader ==
  \/ \E ks \in SUBSET Keys : loadState(ks)
  \/ reloadNoLoad
  \/ \E r \in LoadReturns : reloadLoad(r)
  \/ \E c \in 1..MaxCalls, k \in Keys, v \in Results : settleFulfilled(c, k, v)
  \/ \E c \in 1..MaxCalls, k \in Keys, e \in RejectionValues : settleRejected(c, k, e)

InitLoaderSpec == InitLoader /\ InitListenerIdle /\ InitAuxIdle

SpecLoader == InitLoaderSpec /\ [][NextLoader]_vars

InitLoaderIdle ==
  /\ hasLoad = FALSE
  /\ state = [k \in Keys |-> AbsentRecord]
  /\ hasIterationMap = FALSE
  /\ iterationMap = << >>
  /\ calls = << >>
  /\ last = NoOp

InitListener ==
  /\ optBindings \in SUBSET Filters
  /\ phase = "constructed"
  /\ listener = NoListener
  /\ listeners = << >>
  /\ lstate = [listening |-> Undefined, listeningError |-> Undefined]
  /\ attempts = << >>
  /\ lastL = NoOpL

NextListener ==
  \/ componentDidMount
  \/ startListeningNothing
  \/ \E fs \in SUBSET Filters : startListening(fs)
  \/ \E i \in 1..MaxAttempts : attemptSucceeds(i)
  \/ \E i \in 1..MaxAttempts, e \in ListenerErrors : attemptFails(i, e)
  \/ \E l \in 1..MaxListeners, e \in ListenerErrors : errorEvent(l, e)
  \/ stopListening
  \/ componentWillUnmount

InitListenerSpec == InitListener /\ InitLoaderIdle /\ InitAuxIdle

SpecListener == InitListenerSpec /\ [][NextListener]_vars

(***************************************************************************)
(*                     Properties of the state loader                      *)
(***************************************************************************)

\* A loader step that ran loadState (directly or through reload).
IsLoadStep(l) == l.op \in {"loadState", "reload", "reloadNothing"}

\* The iterations allocated for key k by the invocations made so far.
Allocated(k) == {calls[c].iter[k] : c \in {d \in 1..Len(calls) : k \in calls[d].keys}}

\* The computation of invocation c for key k has been superseded.
Superseded(c, k) == calls[c].iter[k] # iterationMap[k]

\* The terminal record the documentation gives for a settlement.
DocumentedTerminal(kind, val) ==
  IF kind = "fulfilled"
  THEN [Loaded |-> "true", Error |-> Undefined, value |-> val]
  ELSE [Loaded |-> "true",
        Error |-> IF val \in {Undefined, Null, "falsy"} THEN UnknownError ELSE val,
        value |-> Undefined]

\* C1: when a computation for a property settles after a later loadState
\* registered another computation for it, the record of the property is left
\* unchanged; when the latest computation settles, the record becomes its
\* terminal record.
C1_StaleGuard ==
  [][last'.op = "settle" =>
       /\ Superseded(last'.call, last'.key) => state'[last'.key] = state[last'.key]
       /\ (last'.key \in calls[last'.call].over /\ ~Superseded(last'.call, last'.key))
            => state'[last'.key] = DocumentedTerminal(last'.kind, last'.val)]_vars

\* C2: a computation that rejects with undefined or null and has not been
\* superseded ends with Loaded = true, value undefined and the generic
\* "Unknown Error" as Error.
C2_EmptyRejection ==
  [][(/\ last'.op = "settle"
      /\ last'.kind = "rejected"
      /\ last'.val \in {Undefined, Null}
      /\ ~Superseded(last'.call, last'.key))
       => state'[last'.key] = LoadedRecord(Undefined, UnknownError)]_vars

\* C9: loadState sets the record of every key of the mapping to the loading
\* record and allocates an iteration strictly greater than every iteration
\* allocated for the key before; no step decreases or removes a counter.
C9_IterationMonotone ==
  [][/\ IsLoadStep(last') =>
          \A k \in last'.keys :
             /\ state'[k] = LoadingRecord
             /\ calls'[last'.call].iter[k] = iterationMap'[k]
             /\ \A i \in Allocated(k) : iterationMap'[k] > i
     /\ \A k \in DOMAIN iterationMap :
          k \in DOMAIN iterationMap' /\ iterationMap'[k] >= iterationMap[k]]_vars

\* C9 witness: a key has been registered twice and carries the loading record.
C9_Witness ==
  /\ IsLoadStep(last)
  /\ \E k \in last.keys :
       /\ iterationMap[k] >= 2
       /\ state[k] = LoadingRecord
       /\ Cardinality(Allocated(k)) >= 2

\* A loader step that loads nothing: loadState with an empty mapping, reload
\* without a load function, reload whose load returns nothing.
LoadsNothing(l) ==
  \/ IsLoadStep(l) /\ l.keys = {}
  \/ l.op = "reloadNoLoad"

\* C10: loading nothing changes no state field and no iteration counter,
\* leaves every registered computation as it was, and returns a promise that
\* is fulfilled without waiting on anything.
C10_EmptyNoOp ==
  [][LoadsNothing(last') =>
       /\ state' = state
       /\ iterationMap' = iterationMap
       /\ SubSeq(calls', 1, Len(calls)) = calls
       /\ last'.promise = "fulfilled"]_vars

\* C10 witness: nothing was loaded while a computation was pending and a
\* record was already terminal.
C10_Witness ==
  /\ LoadsNothing(last)
  /\ \E c \in 1..Len(calls), k \in Keys : k \in calls[c].keys /\ calls[c].st[k] = "pending"
  /\ \E k \in Keys : state[k].Loaded = "true"

(***************************************************************************)
(*                  Properties of the subscription manager                 *)
(***************************************************************************)

\* The attempts made on WebListener l.
AttemptsOn(l) == {i \in 1..Len(attempts) : attempts[i].l = l}

\* C3: componentDidMount with configured bindings opens a subscription: one
\* WebListener is created, every configured binding is bound to it, resume
\* is called and listening becomes null; without configured bindings no
\* WebListener is created.
C3_MountOpens ==
  [][lastL'.op = "componentDidMount" =>
       IF optBindings # {}
       THEN /\ Len(listeners') = Len(listeners) + 1
            /\ listener' = Len(listeners')
            /\ listeners'[listener'].bound = optBindings
            /\ listeners'[listener'].resumed
            /\ lstate'.listening = Null
            /\ ~lastL'.threw
       ELSE /\ listeners' = listeners
            /\ listener' = NoListener]_vars

\* C4: listening is null while an attempt on the open WebListener is
\* outstanding, true only when a WebListener is open and every attempt made
\* on it has succeeded, and false (or still unset) when no WebListener is
\* open, in particular after stopListening until the next startListening.
C4_TriState ==
  /\ (listener # NoListener /\ \E i \in AttemptsOn(listener) : attempts[i].st = "pending")
       => lstate.listening = Null
  /\ lstate.listening = "true" =>
       /\ listener # NoListener
       /\ \A i \in AttemptsOn(listener) : attempts[i].st = "succeeded"
  /\ listener = NoListener => lstate.listening \in {"false", Undefined}

\* C5: a startListening call made while a WebListener is open creates no
\* WebListener and binds its bindings on the open one, which then has bind
\* called for the bindings of every call made on it; a call made while none
\* is open creates exactly one.
C5_OneListenerUnion ==
  [][lastL'.op = "startListening" =>
       /\ IF listener # NoListener
          THEN /\ listeners' = [listeners EXCEPT ![listener].bound = @ \cup lastL'.fs]
               /\ listener' = listener
          ELSE /\ Len(listeners') = Len(listeners) + 1
               /\ listener' = Len(listeners')
       /\ \A i \in 1..Len(attempts') :
            attempts'[i].l = listener' => attempts'[i].fs \subseteq listeners'[listener'].bound]_vars

\* C5 witness: two calls with disjoint bindings, no stop in between, one
\* WebListener bound to the union.
C5_Witness ==
  /\ lastL.op = "startListening"
  /\ Len(listeners) = 1
  /\ listener = 1
  /\ Len(attempts) = 2
  /\ attempts[1].l = 1 /\ attempts[2].l = 1
  /\ attempts[1].fs # {} /\ attempts[2].fs # {}
  /\ attempts[1].fs \cap attempts[2].fs = {}
  /\ listeners[1].bound = attempts[1].fs \cup attempts[2].fs
  /\ listeners[1].closed = 0

\* C6: stopListening leaves the handle released and listening false; with
\* nothing open it closes nothing; no WebListener is closed twice; a second
\* call in a row changes nothing.
C6_StopIdempotent ==
  [][lastL'.op = "stopListening" =>
       /\ ~lastL'.threw
       /\ listener' = NoListener
       /\ lstate'.listening = "false"
       /\ lstate'.listeningError = lstate.listeningError
       /\ listener = NoListener => listeners' = listeners
       /\ \A l \in 1..Len(listeners') : listeners'[l].closed <= 1
       /\ lastL'.run = 2 => (listeners' = listeners /\ lstate' = lstate /\ listener' = listener)]_vars

\* C6 witness: stopListening ran twice in a row after a WebListener had been
\* opened, which is closed once.
C6_Witness ==
  /\ lastL.op = "stopListening"
  /\ lastL.run = 2
  /\ lastL.l = NoListener
  /\ \E l \in 1..Len(listeners) : listeners[l].closed = 1 /\ listeners[l].resumed

\* C7: an 'error' event of the open WebListener stores the error (a generic
\* one for an empty payload), sets listening false, closes the WebListener
\* and releases the handle.
C7_ErrorForcesStop ==
  [][(lastL'.op = "errorEvent" /\ listener # NoListener /\ lastL'.i = listener) =>
       /\ lstate'.listeningError =
            (IF lastL'.err \in {Undefined, Null} THEN UnknownListenerError ELSE lastL'.err)
       /\ lstate'.listeningError # Undefined
       /\ lstate'.listening = "false"
       /\ listeners'[listener].closed = listeners[listener].closed + 1
       /\ listeners'[listener].closed = 1
       /\ listener' = NoListener]_vars

\* C7 witness: the open, connected WebListener emitted an error without payload.
C7_Witness ==
  /\ lastL.op = "errorEvent"
  /\ lastL.l # NoListener
  /\ lastL.i = lastL.l
  /\ lastL.err = Undefined
  /\ \E i \in AttemptsOn(lastL.l) : attempts[i].st = "succeeded"
  /\ lstate.listeningError = UnknownListenerError

\* C8: when an attempt fails, on either path, listening is false, the error
\* (a generic one for an empty rejection value) is stored, the attempt's
\* WebListener is closed, the handle is released and the promise returned by
\* startListening is not rejected.
C8_FailureTearsDown ==
  [][lastL'.op = "attemptFails" =>
       /\ lstate'.listening = "false"
       /\ lstate'.listeningError =
            (IF lastL'.err \in {Undefined, Null} THEN UnknownListenerError ELSE lastL'.err)
       /\ lstate'.listeningError # Undefined
       /\ listeners'[attempts[lastL'.i].l].closed = 1
       /\ listener' = NoListener
       /\ attempts'[lastL'.i].st = "failed"
       /\ attempts'[lastL'.i].promise # "rejected"]_vars

\* C8 witness: an attempt on the incremental path failed with an empty
\* rejection value while its WebListener, opened by an attempt on the fresh
\* path that is still outstanding, was the open one.
C8_Witness ==
  /\ lastL.op = "attemptFails"
  /\ lastL.err = Undefined
  /\ lastL.l # NoListener
  /\ attempts[lastL.i].path = "incremental"
  /\ attempts[lastL.i].l = lastL.l
  /\ lstate.listeningError = UnknownListenerError
  /\ \E j \in AttemptsOn(lastL.l) : attempts[j].path = "fresh" /\ attempts[j].st = "pending"

(***************************************************************************)
(*               Further properties of loader and subscription             *)
(***************************************************************************)

\* C11: the promise returned by loadState is fulfilled once every
\* computation of the mapping has settled and is never rejected, whatever
\* the computations settle with.
C11_NeverRejects ==
  \A c \in 1..Len(calls) :
     /\ ReturnedPromise(calls[c]) # "rejected"
     /\ (\A k \in calls[c].keys : calls[c].st[k] # "pending")
          => ReturnedPromise(calls[c]) = "fulfilled"

\* C20: a loadState call whose mapping lacks key K leaves K's record and
\* counter unchanged; a computation pending for K from an earlier call is
\* still applied when it settles after such a call; a terminal record never
\* has both an error and a value.
C20_PerKeyIndependence ==
  [][/\ IsLoadStep(last') =>
          \A k \in Keys \ last'.keys :
             /\ state'[k] = state[k]
             /\ (k \in DOMAIN iterationMap') = (k \in DOMAIN iterationMap)
             /\ k \in DOMAIN iterationMap => iterationMap'[k] = iterationMap[k]
     /\ (/\ last'.op = "settle"
         /\ ~Superseded(last'.call, last'.key)
         /\ \E d \in (last'.call + 1)..Len(calls) : last'.key \notin calls[d].keys)
          => state'[last'.key] = DocumentedTerminal(last'.kind, last'.val)
     /\ \A k \in Keys :
          state'[k].Loaded = "true" =>
             ~(state'[k].Error # Undefined /\ state'[k].value # Undefined)]_vars

\* C15: after componentWillUnmount no callback updates the state of the
\* component: in particular the settlement of the binds and resume of a
\* startListening call made before detach causes no setState.
C15_NoCallbackAfterUnmount ==
  [][(phase = "unmounted" /\ lastL'.op \in {"attemptSucceeds", "attemptFails"})
       => lstate' = lstate]_vars

\* C18: the completion of an attempt made on a WebListener that is no longer
\* the open one neither closes nor releases the open WebListener nor changes
\* listening.
C18_LateCompletionIsolated ==
  [][(/\ lastL'.op \in {"attemptFails", "attemptSucceeds"}
      /\ listener # NoListener
      /\ attempts[lastL'.i].l # listener)
       => /\ listener' = listener
          /\ listeners'[listener] = listeners[listener]
          /\ lstate'.listening = lstate.listening]_vars

(***************************************************************************)
(*                    escapeChar / unescapeChar round trip                 *)
(***************************************************************************)

InitEscapeSpec ==
  /\ esc \in {[stage |-> "input", s |-> str, e |-> << >>, u |-> << >>] :
                str \in StringsOver(EscAlphabet, MaxStrLen)}
  /\ InitLoaderIdle
  /\ InitListenerIdle
  /\ InitHashIdle
  /\ InitLifeIdle

NextEscape == escapeStep \/ unescapeStep

SpecEscape == InitEscapeSpec /\ [][NextEscape]_vars

\* The escape sequence of '/'.
SlashCode == <<"%", "2", "f">>

\* C14: for every string s without the literal escape sequence %2f,
\* unescapeChar('/', escapeChar('/', s)) = s; and escapeChar('/', s) holds
\* no '/'.
C14_RoundTrip ==
  /\ (esc.stage = "unescaped" /\ ~Contains(esc.s, SlashCode)) => esc.u = esc.s
  /\ esc.stage \in {"escaped", "unescaped"} =>
       \A i \in 1..Len(esc.e) : esc.e[i] # "/"

\* C14 witness: a string with two '/' and a '%' went through both functions.
C14_Witness ==
  /\ esc.stage = "unescaped"
  /\ esc.s = <<"/", "%", "/">>
  /\ esc.e = <<"%", "2", "f", "%", "%", "2", "f">>
  /\ esc.u = esc.s

(***************************************************************************)
(*                   Properties of the fragment synchronizer                *)
(***************************************************************************)

InitHashSpec == InitHash /\ InitEscIdle /\ InitLifeIdle /\ InitLoaderIdle /\ InitListenerIdle

NextHash ==
  \/ hashWillMount
  \/ hashDidMount
  \/ hashWillUnmount
  \/ \E raw \in ExternalUrls : navigate(raw)
  \/ hashChange
  \/ \E v \in HashValues : setKey(v)
  \/ componentDidUpdate

SpecHash == InitHashSpec /\ [][NextHash]_vars

\* The owned segment of the hash raw, decoded.
OwnedSegment(raw) == Fragment(Split(decodeURIComponent(raw).s), hashIndex)

\* C12: whenever handleHashChange runs on a hash that decodes (on a
\* notification, or from componentWillMount where nothing is remembered yet),
\* load is invoked exactly when the decoded owned segment differs from the
\* remembered fragment, it is invoked with that segment unescaped, and the
\* segment is the remembered fragment afterwards; so a notification carrying
\* the segment already remembered invokes nothing.
C12_ChangeDetection ==
  [][(lastH'.op \in {"handleHashChange", "componentWillMount"} /\ decodeURIComponent(url).ok) =>
       LET remembered == IF lastH'.op = "componentWillMount" THEN UndefStr
                         ELSE previousHashFragment
       IN /\ lastH'.loadCalled <=> (remembered # OwnedSegment(url))
          /\ lastH'.loadCalled => lastH'.loadArg = unescapeChar("/", OwnedSegment(url))
          /\ previousHashFragment' = OwnedSegment(url)]_vars

\* A notification of an outside change arrived whose owned, non-empty
\* segment was the one remembered, and load was not invoked.
C12_Witness ==
  /\ lastH.op = "handleHashChange"
  /\ lastH.origin = "ext"
  /\ ~lastH.loadCalled
  /\ ~lastH.threw
  /\ previousHashFragment # << >>

\* C13: when componentDidUpdate runs on a hash that decodes and the escaped
\* saved value differs from the owned segment, the new hash decodes to the
\* old segments with only the one at hashIndex replaced, and reading the new
\* hash back hands load the saved value; when they are equal the hash is not
\* written.
C13_WriteReadsBack ==
  [][(lastH'.updated /\ ~lastH'.threw) =>
       LET saved       == SaveDefault(hashState', hashDefault)
           newFragment == escapeChar("/", saved)
           before      == Split(decodeURIComponent(url).s)
       IN IF Fragment(before, hashIndex) # newFragment
          THEN /\ decodeURIComponent(url').ok
               /\ Split(decodeURIComponent(url').s) = SetFragment(before, hashIndex, newFragment)
               /\ unescapeChar("/", OwnedSegment(url')) = saved
          ELSE url' = url]_vars

\* One stimulus after mounting, a state update or an outside change of the
\* hash, and then only the notifications it causes.
NextHashChain ==
  \/ hashWillMount
  \/ hashDidMount
  \/ lastH.op = "componentDidMount" /\ \E raw \in ExternalUrls : navigate(raw)
  \/ lastH.op = "componentDidMount" /\ \E v \in HashValues : setKey(v)
  \/ hashChange

SpecHashChain == InitHashSpec /\ [][NextHashChain]_vars

\* C19: with the default load and save and the default defaultValue '', the
\* notification caused by the component's own write of the hash sets no
\* state and writes no hash.
C19_OwnWriteIsQuiet ==
  [][(lastH'.op = "handleHashChange" /\ lastH'.origin = "own" /\ hashDefault = << >>) =>
       (~lastH'.setState /\ ~lastH'.wrote /\ hashState' = hashState /\ url' = url)]_vars

(***************************************************************************)
(*                   Properties of the loader's lifecycle                  *)
(***************************************************************************)

InitLifecycleSpec == InitLoader /\ InitLife /\ InitEscIdle /\ InitHashIdle /\ InitListenerIdle

\* What load() returns here: nothing, or computations for a, or for a and b.
LifeLoadReturns ==
  {r \in LoadReturns : r.keys \in {{}, {"a"}, Keys} /\ (r.keys = {} => ~r.defined)}

\* The lifecycle methods, and the computations fulfilling with one result.
NextLifecycle ==
  \/ \E cr \in {"c1", Undefined}, r \in LifeLoadReturns : loaderDidMount(cr, r)
  \/ \E np \in [PropNames -> PropValues], r \in LifeLoadReturns :
       componentWillReceiveProps(np, r)
  \/ \E cr \in Credentials, r \in LifeLoadReturns : handleCredentialsChanged(cr, r)
  \/ loaderWillUnmount
  \/ \E c \in 1..MaxCalls, k \in Keys : settleFulfilled(c, k, "r1")

SpecLifecycle == InitLifecycleSpec /\ [][NextLifecycle]_vars

\* C16: componentWillReceiveProps calls reload exactly when reloadOnProps is
\* true or is a list with a property whose value differs between this.props
\* and nextProps, and then with nextProps; otherwise no record, no iteration
\* counter and no computation changes.
C16_ReloadOnProps ==
  [][last'.op = "componentWillReceiveProps" =>
       LET expected == \/ reloadOnProps.kind = "true"
                       \/ /\ reloadOnProps.kind = "list"
                          /\ \E f \in reloadOnProps.list : props[f] # props'[f]
       IN /\ lastC'.reloaded <=> expected
          /\ lastC'.loadCalled => lastC'.withProps = props'
          /\ ~expected => /\ state' = state
                          /\ iterationMap' = iterationMap
                          /\ hasIterationMap' = hasIterationMap
                          /\ calls' = calls]_vars

\* Only a property that is not listed changed, and nothing was reloaded.
C16_Witness ==
  /\ last.op = "componentWillReceiveProps"
  /\ reloadOnProps.kind = "list"
  /\ reloadOnProps.list # {}
  /\ lastC.changed # {}
  /\ ~lastC.reloaded
  /\ hasLoad

\* Invocation c computed key under other clients than a later invocation
\* that loaded key again.
ReloadedUnderOtherClients(c, key) ==
  \E d \in (c + 1)..Len(calls) : key \in calls[d].keys /\ callClients[d] # callClients[c]

\* C17: handleCredentialsChanged leaves every configured client built with
\* the credentials of the notification, load() has found exactly those
\* clients, every earlier computation for a key loaded again is superseded,
\* and a computation settling after its key was loaded again under other
\* clients changes no record.
C17_CredentialsChanged ==
  [][/\ last'.op = "handleCredentialsChanged" =>
          /\ \A key \in ClientNames : clients'[key] = lastC'.cred
          /\ lastC'.loadCalled =>
               /\ \A key \in ClientNames : lastC'.withClients[key] = lastC'.cred
               /\ \A c \in 1..Len(calls) : \A k \in calls[c].keys \cap last'.keys :
                    calls[c].iter[k] # iterationMap'[k]
     /\ (last'.op = "settle" /\ ReloadedUnderOtherClients(last'.call, last'.key)) =>
          state' = state]_vars

\* A computation started under the old credentials settled after its key had
\* been loaded again under the new ones.
C17_Witness ==
  /\ last.op = "settle"
  /\ last.kind = "fulfilled"
  /\ ReloadedUnderOtherClients(last.call, last.key)
  /\ \E c \in 1..Len(calls) : c > last.call /\ callClients[c] # callClients[last.call]

====
